---------------------------- MODULE Spec2Model ----------------------------
(***************************************************************************)
(* A model of lim6231/Hackathon:                                           *)
(*   src/optimizer.py  safe_openai_call, _clean_json_from_text,            *)
(*                     analyze_artifacts                                   *)
(*   src/app.py        Agent.handle, extract_json, chat                    *)
(*                                                                         *)
(* Text is a sequence of one-character strings, so that strip, startswith, *)
(* the regular expressions and json.loads act on characters as in Python.  *)
(*                                                                         *)
(* Six specifications share  the variables; each runs one part of the      *)
(* program and leaves the variables of the other parts at rest:            *)
(*   SpecRetry    safe_openai_call around a scripted func                  *)
(*   SpecExtract  extract_json on a bounded set of texts                   *)
(*   SpecAnalyze  analyze_artifacts around a nondeterministic backend      *)
(*   SpecChat     concurrent POST requests handled by chat()               *)
(*   SpecPrompt   analyze_artifacts or chat(), for what both send          *)
(*   SpecHandle   POST requests handled one after another, so that the     *)
(*                calls of Agent.handle share one session memory           *)
(***************************************************************************)
EXTENDS Naturals, Sequences, FiniteSets

VARIABLES
    \* ---- safe_openai_call (src/optimizer.py:8-25)
    retries,        \* keyword argument retries
    initial_delay,  \* keyword argument initial_delay
    script,         \* the stub func: outcome of its k-th call, k = 1..Len(script)
    wpc,            \* position inside safe_openai_call
    attempt,        \* loop variable of "for attempt in range(retries)"
    delay,          \* local variable delay
    calls,          \* number of calls of func made by this invocation
    log,            \* calls of func and sleeps of this invocation, in order
    exc,            \* the exception being handled by an except clause
    wstatus,        \* "running", "returned" or "raised"
    wvalue,         \* what the wrapper returned
    werr,           \* what the wrapper raised
    \* ---- extract_json (src/app.py:93-110)
    epc,            \* "start" before the call, "done" after it
    etext,          \* argument text
    eresult,        \* return value
    \* ---- the backend
    sent,           \* messages of the latest chat.completions.create call
    \* ---- analyze_artifacts (src/optimizer.py:46-131)
    apc,            \* position inside analyze_artifacts
    invocations,    \* calls of safe_openai_call made so far
    backendCalls,   \* backend calls made by the invocations that have ended
    lastReply,      \* the reply the backend gave to the latest invocation
    raw,            \* local variable raw
    raw2,           \* local variable raw2
    json_text,      \* local variable json_text
    cleans,         \* number of calls of _clean_json_from_text made so far
    repairs,        \* number of times lines 121-123 have run
    parsed,         \* local variable parsed, before the setdefault calls
    astatus,        \* "running", "returned" or "raised"
    aerr,           \* the exception analyze_artifacts raised
    report,         \* the dict analyze_artifacts returned
    \* ---- chat() and Agent (src/app.py:22-66, 308-420), per POST request
    cpc,            \* position of each request inside chat()
    chat_history,   \* local variable chat_history of each request
    session_memory, \* session["session_memory"] as each request holds it
    reply,          \* what agent.handle returned to each request
    history_file,   \* content of chat_history.json
    session_store,  \* session["session_memory"] as the session store holds it
    memory,         \* agent.memory
    memory_file     \* content of test_optimizer_memory.json

wvars == <<retries, initial_delay, script, wpc, attempt, delay, calls, log,
           exc, wstatus, wvalue, werr>>

evars == <<epc, etext, eresult>>

avars == <<apc, invocations, backendCalls, lastReply, raw, raw2, json_text,
           cleans, repairs, parsed, astatus, aerr, report>>

cvars == <<cpc, chat_history, session_memory, reply, history_file,
           session_store, memory, memory_file>>

vars == <<wvars, evars, sent, avars, cvars>>

\* What a step of one part of the program leaves alone
besidesWrapper == <<evars, sent, avars, cvars>>
besidesExtract == <<wvars, sent, avars, cvars>>
besidesAnalyze == <<evars, cvars>>
besidesChat == <<wvars, evars, avars>>

-----------------------------------------------------------------------------
(* Bounds of the model *)

MaxRetries == 3
MaxInitialDelay == 2
\* longest run of braces, brackets and letters between the decorations of a
\* text given to extract_json
MaxBodyLen == 2
\* most members of a JSON object the backend replies with
MaxMembers == 2
\* number of POST requests in flight
NumRequests == 2
\* number of calls of Agent.handle made one after another
MaxCalls == 3

-----------------------------------------------------------------------------
(* Python str operations, on sequences of one-character strings *)

Whitespace == {" ", "\n"}

RECURSIVE lstrip_chars(_, _)
\* str.lstrip(chars)
lstrip_chars(s, chars) ==
    IF s # <<>> /\ Head(s) \in chars THEN lstrip_chars(Tail(s), chars) ELSE s

RECURSIVE rstrip_chars(_, _)
\* str.rstrip(chars)
rstrip_chars(s, chars) ==
    IF s # <<>> /\ s[Len(s)] \in chars
    THEN rstrip_chars(SubSeq(s, 1, Len(s) - 1), chars)
    ELSE s

\* str.strip(chars)
strip_chars(s, chars) == rstrip_chars(lstrip_chars(s, chars), chars)

\* str.strip(), str.lstrip()
strip(s) == strip_chars(s, Whitespace)
lstrip(s) == lstrip_chars(s, Whitespace)

\* str.startswith, str.endswith
startswith(s, p) == Len(s) >= Len(p) /\ SubSeq(s, 1, Len(p)) = p
endswith(s, p) == Len(s) >= Len(p) /\ SubSeq(s, Len(s) - Len(p) + 1, Len(s)) = p

\* str.lower(), on the letters of the alphabet that have an upper case form
LowerChar(c) ==
    CASE c = "J" -> "j"
      [] c = "S" -> "s"
      [] c = "O" -> "o"
      [] c = "N" -> "n"
      [] OTHER -> c

lower(s) == [i \in 1..Len(s) |-> LowerChar(s[i])]

\* Positions of a character: the leftmost and the rightmost, 0 when absent
FirstIndex(s, c) ==
    IF \E i \in 1..Len(s) : s[i] = c
    THEN CHOOSE i \in 1..Len(s) : s[i] = c /\ \A j \in 1..(i - 1) : s[j] # c
    ELSE 0

LastIndex(s, c) ==
    IF \E i \in 1..Len(s) : s[i] = c
    THEN CHOOSE i \in 1..Len(s) : s[i] = c /\ \A j \in (i + 1)..Len(s) : s[j] # c
    ELSE 0

\* What re.search finds nothing is None; no text is this sequence
None == <<"None">>

\* re.search(r"(\{(?:.|\n)*\})", s).group(1), and the same for [ and ]:
\* (?:.|\n)* matches any run of characters and is greedy, so the match starts
\* at the leftmost opening character that has a closing one after it and ends
\* at the rightmost closing character.
SearchSpan(s, open, close) ==
    LET a == FirstIndex(s, open)
        b == LastIndex(s, close)
    IN  IF a > 0 /\ b > a THEN SubSeq(s, a, b) ELSE None

-----------------------------------------------------------------------------
(* extract_json *)

\* The backquote character (U+0060), which a TLA+ string cannot hold
Backquote == "bq"

Tick == <<Backquote>>
Fence == <<Backquote, Backquote, Backquote>>
JsonTag == <<"j", "s", "o", "n">>

\* app.py:93-110.  text is always a str here (chat() passes msg.content.strip()),
\* so the isinstance test of line 94 is false.
extract_json(text) ==
    LET t == strip(text) IN
    IF startswith(t, Fence)
    THEN LET t_inner == lstrip(strip_chars(t, {Backquote}))
             untagged == IF startswith(lower(t_inner), JsonTag)
                         THEN lstrip(SubSeq(t_inner, 5, Len(t_inner)))
                         ELSE t_inner
         IN  strip(untagged)
    ELSE IF startswith(t, Tick) /\ endswith(t, Tick)
    THEN strip(strip_chars(t, {Backquote}))
    ELSE IF SearchSpan(t, "{", "}") # None
    THEN SearchSpan(t, "{", "}")
    ELSE IF SearchSpan(t, "[", "]") # None
    THEN SearchSpan(t, "[", "]")
    ELSE t

\* The call extract_json(etext)
ExtractJson ==
    /\ epc = "start"
    /\ epc' = "done"
    /\ eresult' = extract_json(etext)
    /\ UNCHANGED etext
    /\ UNCHANGED besidesExtract

ExtractAtRest ==
    /\ epc = "idle"
    /\ etext = <<>>
    /\ eresult = <<>>

RECURSIVE Strings(_, _)
\* All strings over an alphabet, up to a length
Strings(alphabet, n) ==
    IF n = 0 THEN {<<>>}
    ELSE LET shorter == Strings(alphabet, n - 1)
         IN  shorter \cup {<<c>> \o w : c \in alphabet, w \in {x \in shorter : Len(x) = n - 1}}

\* The texts extract_json is given: optional prose or blanks, an opening
\* fence or backtick with or without a tag, a body of braces, brackets and
\* letters, a closing fence or backtick, and optional trailing text.
ExtractLeads == {<<>>, <<" ">>, <<"x", " ">>}
ExtractOpens == {<<>>, Tick, Fence}
ExtractTags == {<<>>, <<"j", "s", "o", "n", "\n">>, <<"J", "S", "O", "N", " ">>}
ExtractBodies == Strings({"{", "}", "[", "]", "x"}, MaxBodyLen)
ExtractCloses == {<<>>, Tick, <<"\n">> \o Fence}
ExtractTrails == {<<>>, <<"\n">>, <<"\n", "x">>}

ExtractInputs ==
    {l \o o \o g \o b \o c \o t :
        l \in ExtractLeads, o \in ExtractOpens, g \in ExtractTags,
        b \in ExtractBodies, c \in ExtractCloses, t \in ExtractTrails}

-----------------------------------------------------------------------------
(* json.loads, on the JSON the model's texts can hold: objects, arrays,    *)
(* strings without escapes and numbers written with the digit 1.  The      *)
(* texts never hold the words null, true, false, NaN or Infinity outside a *)
(* string, so a letter where a value is expected is a syntax error.        *)

\* A parsed value is [t |-> "obj", v |-> function from keys to values],
\* [t |-> "arr", v |-> sequence of values], [t |-> "str", v |-> characters]
\* or [t |-> "num", v |-> digits].  A parse result carries the position
\* after the value.
ParseFail == [ok |-> FALSE, val |-> <<>>, pos |-> 0]
Parsed(val, pos) == [ok |-> TRUE, val |-> val, pos |-> pos]

Quote == "\""

CharAt(s, i) == IF i >= 1 /\ i <= Len(s) THEN s[i] ELSE "EOF"

RECURSIVE SkipWs(_, _)
\* json.decoder.WHITESPACE.match(s, i).end()
SkipWs(s, i) ==
    IF i <= Len(s) /\ s[i] \in Whitespace THEN SkipWs(s, i + 1) ELSE i

\* json.decoder.py_scanstring with strict=True, s[i] being the opening
\* quote: the string ends at the next quote; a control character inside it
\* is an error, and so is a missing closing quote
scanstring(s, i) ==
    LET stops == {j \in (i + 1)..Len(s) : s[j] \in {Quote, "\n"}} IN
    IF stops = {} THEN ParseFail
    ELSE LET j == CHOOSE k \in stops : \A m \in stops : k <= m
         IN  IF s[j] = Quote
             THEN Parsed([t |-> "str", v |-> SubSeq(s, i + 1, j - 1)], j + 1)
             ELSE ParseFail

RECURSIVE DigitsEnd(_, _)
DigitsEnd(s, i) == IF CharAt(s, i) = "1" THEN DigitsEnd(s, i + 1) ELSE i

\* json.scanner NUMBER_RE, for numbers written with the digit 1
scannumber(s, i) ==
    LET j == DigitsEnd(s, i)
    IN  Parsed([t |-> "num", v |-> SubSeq(s, i, j - 1)], j)

\* dict[key] = value: a repeated key keeps its last value
DictSet(m, k, val) ==
    [x \in (DOMAIN m) \cup {k} |-> IF x = k THEN val ELSE m[x]]

RECURSIVE scan_once(_, _), JSONObject(_, _, _), JSONArray(_, _, _)

\* json.scanner.py_make_scanner._scan_once
scan_once(s, i) ==
    LET c == CharAt(s, i) IN
    IF c = Quote THEN scanstring(s, i)
    ELSE IF c = "{" THEN
        LET j == SkipWs(s, i + 1) IN
        IF CharAt(s, j) = "}" THEN Parsed([t |-> "obj", v |-> <<>>], j + 1)
        ELSE JSONObject(s, j, <<>>)
    ELSE IF c = "[" THEN
        LET j == SkipWs(s, i + 1) IN
        IF CharAt(s, j) = "]" THEN Parsed([t |-> "arr", v |-> <<>>], j + 1)
        ELSE JSONArray(s, j, <<>>)
    ELSE IF c = "1" THEN scannumber(s, i)
    ELSE ParseFail

\* json.decoder.JSONObject, from a member's key on; pairs holds the members
\* read so far
JSONObject(s, i, pairs) ==
    IF CharAt(s, i) # Quote THEN ParseFail
    ELSE LET key == scanstring(s, i) IN
    IF ~key.ok THEN ParseFail
    ELSE LET colon == SkipWs(s, key.pos) IN
    IF CharAt(s, colon) # ":" THEN ParseFail
    ELSE LET value == scan_once(s, SkipWs(s, colon + 1)) IN
    IF ~value.ok THEN ParseFail
    ELSE LET next == SkipWs(s, value.pos)
             more == DictSet(pairs, key.val.v, value.val)
         IN  IF CharAt(s, next) = "}"
             THEN Parsed([t |-> "obj", v |-> more], next + 1)
             ELSE IF CharAt(s, next) = ","
             THEN JSONObject(s, SkipWs(s, next + 1), more)
             ELSE ParseFail

\* json.decoder.JSONArray, from an element on; values holds the elements
\* read so far
JSONArray(s, i, values) ==
    LET value == scan_once(s, i) IN
    IF ~value.ok THEN ParseFail
    ELSE LET next == SkipWs(s, value.pos)
             more == Append(values, value.val)
         IN  IF CharAt(s, next) = "]"
             THEN Parsed([t |-> "arr", v |-> more], next + 1)
             ELSE IF CharAt(s, next) = ","
             THEN JSONArray(s, SkipWs(s, next + 1), more)
             ELSE ParseFail

\* json.loads(s): one value, surrounded by nothing but whitespace.  ok is
\* FALSE where json.loads raises JSONDecodeError.
json_loads(s) ==
    LET r == scan_once(s, SkipWs(s, 1)) IN
    IF r.ok /\ SkipWs(s, r.pos) = Len(s) + 1 THEN r ELSE ParseFail

\* The value of F at v, with v computed once before F uses it
At(F(_), v) == CHOOSE r \in {F(x) : x \in {v}} : TRUE

RECURSIVE re_sub_comma(_, _)
\* re.sub(r",\s*}", "}", s) and re.sub(r",\s*]", "]", s): a match starts at
\* a comma that is followed by optional whitespace and the closing
\* character; the leftmost match is replaced by the closing character and
\* the search goes on after it.
re_sub_comma(s, close) ==
    LET starts == {i \in 1..Len(s) :
                      s[i] = "," /\ CharAt(s, SkipWs(s, i + 1)) = close}
    IN  IF starts = {} THEN s
        ELSE LET i == CHOOSE k \in starts : \A m \in starts : k <= m
                 j == SkipWs(s, i + 1)
                 rest(tail) == re_sub_comma(tail, close)
             IN  SubSeq(s, 1, i - 1) \o <<close>>
                 \o At(rest, SubSeq(s, j + 1, Len(s)))

\* optimizer.py:121-122
fix_trailing_commas(text) ==
    LET brackets(fixed) == re_sub_comma(fixed, "]")
    IN  At(brackets, re_sub_comma(text, "}"))

\* optimizer.py:27-44
_clean_json_from_text(text0) ==
    LET text == strip(text0) IN
    IF \/ startswith(text, <<"{">>) /\ endswith(text, <<"}">>)
       \/ startswith(text, <<"[">>) /\ endswith(text, <<"]">>)
    THEN text
    ELSE IF SearchSpan(text, "{", "}") # None
    THEN SearchSpan(text, "{", "}")
    ELSE SearchSpan(text, "[", "]")

-----------------------------------------------------------------------------
(* safe_openai_call *)

RateLimitError == "RateLimitError"
APIConnectionError == "APIConnectionError"
OtherError == "AuthenticationError"
Ok == "ok"

OutcomeKinds == {Ok, RateLimitError, APIConnectionError, OtherError}

\* A scripted func is called at most MaxRetries times; one more entry lets it
\* fail on every call the wrapper can make and still succeed afterwards.
ScriptLen == MaxRetries + 1

NoError == [kind |-> "none", call |-> 0]
\* Python's None, as the wrapper's return value
NoneValue == [call |-> 0, content |-> 0]

\* What the next call of func can do: a scripted func does what its script
\* says, an unscripted one (the backend) anything.
FuncOutcomes(replies) ==
    IF calls < Len(script)
    THEN {[kind |-> script[calls + 1], content |-> 0]}
    ELSE {[kind |-> k, content |-> 0] : k \in OutcomeKinds \ {Ok}}
         \cup {[kind |-> Ok, content |-> c] : c \in replies}

\* A variant with a bare "except:" in place of the first clause
ExceptClauseBroad(kind) == "except_rate"

\* optimizer.py:16,21: the except clause that catches an exception kind
ExceptClause(kind) ==
    IF kind = RateLimitError THEN "except_rate"
    ELSE IF kind = APIConnectionError THEN "except_conn"
    ELSE "propagate"

\* A variant that compares with retries in place of retries - 1
IsLastAttemptOffByOne(a, r) == a = r

\* optimizer.py:17,22
IsLastAttempt(a, r) == a = r - 1

\* A variant without the doubling
BackoffNone(d) == d

\* optimizer.py:20,25
Backoff(d) == d * 2

\* optimizer.py:12: delay = initial_delay, then the for statement is entered
Enter ==
    /\ wpc = "start"
    /\ wpc' = "for"
    /\ delay' = initial_delay
    /\ attempt' = 0
    /\ UNCHANGED <<retries, initial_delay, script, calls, log, exc, wstatus,
                   wvalue, werr>>
    /\ UNCHANGED besidesWrapper

\* optimizer.py:13: the next value of range(retries), or the end of the loop,
\* after which the function body ends and Python returns None
LoopHead ==
    /\ wpc = "for"
    /\ \/ /\ attempt < retries
          /\ wpc' = "try"
          /\ UNCHANGED <<wstatus, wvalue>>
       \/ /\ ~(attempt < retries)
          /\ wpc' = "done"
          /\ wstatus' = "returned"
          /\ wvalue' = NoneValue
    /\ UNCHANGED <<retries, initial_delay, script, attempt, delay, calls, log,
                   exc, werr>>
    /\ UNCHANGED besidesWrapper

\* optimizer.py:14-15: return func(*args, **kwargs), or func raises
TryCall(replies) ==
    /\ wpc = "try"
    /\ \E out \in FuncOutcomes(replies) :
        /\ calls' = calls + 1
        /\ log' = Append(log, [ev |-> "call", d |-> 0])
        /\ \/ /\ out.kind = Ok
              /\ wpc' = "done"
              /\ wstatus' = "returned"
              /\ wvalue' = [call |-> calls + 1, content |-> out.content]
              /\ UNCHANGED <<exc, werr>>
           \/ /\ out.kind # Ok
              /\ ExceptClause(out.kind) # "propagate"
              /\ wpc' = ExceptClause(out.kind)
              /\ exc' = [kind |-> out.kind, call |-> calls + 1]
              /\ UNCHANGED <<wstatus, wvalue, werr>>
           \/ /\ out.kind # Ok
              /\ ExceptClause(out.kind) = "propagate"
              /\ wpc' = "done"
              /\ wstatus' = "raised"
              /\ werr' = [kind |-> out.kind, call |-> calls + 1]
              /\ UNCHANGED <<exc, wvalue>>
    /\ UNCHANGED <<retries, initial_delay, script, attempt, delay>>
    /\ UNCHANGED besidesWrapper

\* optimizer.py:17-20 and 22-25: the body of an except clause
ExceptBody ==
    \/ /\ IsLastAttempt(attempt, retries)
       /\ wpc' = "done"
       /\ wstatus' = "raised"
       /\ werr' = exc
       /\ UNCHANGED <<attempt, delay, log>>
    \/ /\ ~IsLastAttempt(attempt, retries)
       /\ log' = Append(log, [ev |-> "sleep", d |-> delay])
       /\ delay' = Backoff(delay)
       /\ attempt' = attempt + 1
       /\ wpc' = "for"
       /\ UNCHANGED <<wstatus, werr>>

\* optimizer.py:16-20
ExceptRateLimit ==
    /\ wpc = "except_rate"
    /\ ExceptBody
    /\ UNCHANGED <<retries, initial_delay, script, calls, exc, wvalue>>
    /\ UNCHANGED besidesWrapper

\* optimizer.py:21-25
ExceptAPIConnection ==
    /\ wpc = "except_conn"
    /\ ExceptBody
    /\ UNCHANGED <<retries, initial_delay, script, calls, exc, wvalue>>
    /\ UNCHANGED besidesWrapper

WrapperStep(replies) ==
    \/ Enter
    \/ LoopHead
    \/ TryCall(replies)
    \/ ExceptRateLimit
    \/ ExceptAPIConnection

\* The wrapper before it is called
WrapperAtRest ==
    /\ wpc = "idle"
    /\ retries = 0
    /\ initial_delay = 0
    /\ script = <<>>
    /\ attempt = 0
    /\ delay = 0
    /\ calls = 0
    /\ log = <<>>
    /\ exc = NoError
    /\ wstatus = "running"
    /\ wvalue = NoneValue
    /\ werr = NoError

-----------------------------------------------------------------------------
(* The backend's replies to analyze_artifacts *)

risk_scores == <<"r", "i", "s", "k", "_", "s", "c", "o", "r", "e", "s">>
missing_coverage ==
    <<"m", "i", "s", "s", "i", "n", "g", "_", "c", "o", "v", "e", "r", "a", "g", "e">>
most_impactful_tests ==
    <<"m", "o", "s", "t", "_", "i", "m", "p", "a", "c", "t", "f", "u", "l", "_",
      "t", "e", "s", "t", "s">>
prioritized_plan ==
    <<"p", "r", "i", "o", "r", "i", "t", "i", "z", "e", "d", "_", "p", "l", "a", "n">>
\* a key the schema does not know
plan == <<"p", "l", "a", "n">>

\* optimizer.py:126-129, in the order of the setdefault calls
KnownKeys == <<risk_scores, missing_coverage, most_impactful_tests,
               prioritized_plan>>

DocKeys == KnownKeys \o <<plan>>

EmptyList == [t |-> "arr", v |-> <<>>]

\* The values a member of a reply can have: the array [1] and the string
\* "x,}"
ValueIds == {"list", "text"}

DocValueOf(id) ==
    IF id = "list" THEN [t |-> "arr", v |-> <<[t |-> "num", v |-> <<"1">>]>>]
    ELSE [t |-> "str", v |-> <<"x", ",", "}">>]

\* A value as JSON text; an array may carry a trailing comma
ValueText(id, comma) ==
    IF id = "list"
    THEN IF comma THEN <<"[", "1", ",", "]">> ELSE <<"[", "1", "]">>
    ELSE <<Quote, "x", ",", "}", Quote>>

\* A reply that means a JSON object: doc maps positions of DocKeys to value
\* ids; comma is 0, or the position of the array member that ends with a
\* trailing comma, or Len(DocKeys) + 1 for a trailing comma before the
\* closing brace; wrap is what surrounds the object.
\* Any other reply has no members and one of the kinds of OtherReplies.
Wraps == {"bare", "prose", "fence"}

Docs ==
    UNION {[keys -> ValueIds] :
              keys \in {k \in SUBSET (1..Len(DocKeys)) : Cardinality(k) <= MaxMembers}}

CommaPlaces(doc) ==
    {0} \cup {k \in DOMAIN doc : doc[k] = "list"}
        \cup (IF DOMAIN doc = {} THEN {} ELSE {Len(DocKeys) + 1})

DocReplies ==
    UNION {{[kind |-> "doc", doc |-> d, comma |-> c, wrap |-> w] :
               c \in CommaPlaces(d), w \in Wraps} : d \in Docs}

OtherKinds == {"sorry", "empty", "open", "array", "broken"}

OtherReplies ==
    {[kind |-> k, doc |-> <<>>, comma |-> 0, wrap |-> "bare"] : k \in OtherKinds}

Replies == DocReplies \cup OtherReplies

NoReply == [kind |-> "none", doc |-> <<>>, comma |-> 0, wrap |-> "bare"]

RECURSIVE MembersText(_, _, _)
\* The members of doc at positions k and above, separated by commas
MembersText(doc, comma, k) ==
    IF k > Len(DocKeys) THEN <<>>
    ELSE IF k \notin DOMAIN doc THEN MembersText(doc, comma, k + 1)
    ELSE LET member == <<Quote>> \o DocKeys[k] \o <<Quote, ":", " ">>
                       \o ValueText(doc[k], comma = k)
             later == {m \in DOMAIN doc : m > k}
         IN  IF later = {} THEN member
             ELSE member \o <<",", " ">> \o MembersText(doc, comma, k + 1)

ObjectText(doc, comma) ==
    <<"{">> \o MembersText(doc, comma, 1)
    \o (IF comma = Len(DocKeys) + 1 THEN <<",", "\n">> ELSE <<>>) \o <<"}">>

Wrapped(text, wrap) ==
    IF wrap = "prose" THEN <<"H", "e", "r", "e", ":", " ">> \o text \o <<"\n", "x">>
    ELSE IF wrap = "fence" THEN Fence \o JsonTag \o <<"\n">> \o text \o <<"\n">> \o Fence
    ELSE text

\* resp.choices[0].message.content of a reply
ReplyText(rep) ==
    IF rep.kind = "doc" THEN Wrapped(ObjectText(rep.doc, rep.comma), rep.wrap)
    ELSE IF rep.kind = "sorry" THEN <<"s", "o", "r", "r", "y">>
    ELSE IF rep.kind = "empty" THEN <<>>
    ELSE IF rep.kind = "open" THEN <<"{", " ", "x">>
    ELSE IF rep.kind = "array" THEN <<"[", "1", "]">>
    ELSE <<"{", "x", "}">>

\* The object a doc reply means
DocObject(doc) ==
    [t |-> "obj",
     v |-> [key \in {DocKeys[k] : k \in DOMAIN doc} |->
               DocValueOf(doc[CHOOSE k \in DOMAIN doc : DocKeys[k] = key])]]

-----------------------------------------------------------------------------
(* analyze_artifacts *)

\* optimizer.py:8: the defaults of safe_openai_call, which analyze_artifacts
\* does not override
DefaultRetries == 4
DefaultInitialDelay == 2

NoValue == [t |-> "none", v |-> <<>>]

Message(role, text, quoted) == [role |-> role, text |-> text, quoted |-> quoted]

\* optimizer.py:79-82
FirstMessages ==
    <<Message("system", "system_prompt", <<>>), Message("user", "prompt", <<>>)>>

\* optimizer.py:107-110: the follow-up quotes the first output
FollowMessages(original) ==
    <<Message("system", "system_prompt", <<>>),
      Message("user", "follow_prompt", original)>>

\* safe_openai_call is entered with the default retries and initial_delay
CallWrapper ==
    /\ retries' = DefaultRetries
    /\ initial_delay' = DefaultInitialDelay
    /\ script' = <<>>
    /\ wpc' = "start"
    /\ attempt' = 0
    /\ delay' = 0
    /\ calls' = 0
    /\ log' = <<>>
    /\ exc' = NoError
    /\ wstatus' = "running"
    /\ wvalue' = NoneValue
    /\ werr' = NoError

\* The frame of safe_openai_call is gone
LeaveWrapper ==
    /\ retries' = 0
    /\ initial_delay' = 0
    /\ script' = <<>>
    /\ wpc' = "idle"
    /\ attempt' = 0
    /\ delay' = 0
    /\ calls' = 0
    /\ log' = <<>>
    /\ exc' = NoError
    /\ wstatus' = "running"
    /\ wvalue' = NoneValue
    /\ werr' = NoError

\* A variant that asks again after every failed extraction
AfterCleanAlwaysFollow(n, text) == IF text # None THEN "parse" ELSE "follow"

\* optimizer.py:101,114: what follows the n-th extraction
AfterClean(n, text) ==
    IF text # None THEN "parse"
    ELSE IF n = 1 THEN "follow"
    ELSE "raise"

\* optimizer.py:56-92: the first prompt is built and given to safe_openai_call
FirstCall ==
    /\ apc = "start"
    /\ apc' = "call1"
    /\ sent' = FirstMessages
    /\ invocations' = invocations + 1
    /\ CallWrapper
    /\ UNCHANGED <<backendCalls, lastReply, raw, raw2, json_text, cleans,
                   repairs, parsed, astatus, aerr, report>>
    /\ UNCHANGED besidesAnalyze

\* optimizer.py:92-101: safe_openai_call returns resp or raises; raw is
\* the content of resp, json_text what _clean_json_from_text makes of it
FirstResult ==
    /\ apc = "call1"
    /\ wpc = "done"
    /\ backendCalls' = backendCalls + calls
    /\ LeaveWrapper
    /\ \/ /\ wstatus = "raised"
          /\ apc' = "done"
          /\ astatus' = "raised"
          /\ aerr' = werr.kind
          /\ UNCHANGED <<lastReply, raw, json_text, cleans>>
       \/ /\ wstatus = "returned"
          /\ lastReply' = wvalue.content
          /\ raw' = ReplyText(wvalue.content)
          /\ json_text' = _clean_json_from_text(raw')
          /\ cleans' = cleans + 1
          /\ apc' = AfterClean(1, json_text')
          /\ UNCHANGED <<astatus, aerr>>
    /\ UNCHANGED <<sent, invocations, raw2, repairs, parsed, report>>
    /\ UNCHANGED besidesAnalyze

\* optimizer.py:102-111: the follow-up prompt is built and given to
\* safe_openai_call
FollowUpCall ==
    /\ apc = "follow"
    /\ apc' = "call2"
    /\ sent' = FollowMessages(raw)
    /\ invocations' = invocations + 1
    /\ CallWrapper
    /\ UNCHANGED <<backendCalls, lastReply, raw, raw2, json_text, cleans,
                   repairs, parsed, astatus, aerr, report>>
    /\ UNCHANGED besidesAnalyze

\* optimizer.py:111-115
FollowUpResult ==
    /\ apc = "call2"
    /\ wpc = "done"
    /\ backendCalls' = backendCalls + calls
    /\ LeaveWrapper
    /\ \/ /\ wstatus = "raised"
          /\ apc' = "done"
          /\ astatus' = "raised"
          /\ aerr' = werr.kind
          /\ UNCHANGED <<lastReply, raw2, json_text, cleans>>
       \/ /\ wstatus = "returned"
          /\ lastReply' = wvalue.content
          /\ raw2' = ReplyText(wvalue.content)
          /\ json_text' = _clean_json_from_text(raw2')
          /\ cleans' = cleans + 1
          /\ apc' = AfterClean(2, json_text')
          /\ UNCHANGED <<astatus, aerr>>
    /\ UNCHANGED <<sent, invocations, raw, repairs, parsed, report>>
    /\ UNCHANGED besidesAnalyze

\* optimizer.py:114-115
RaiseValueError ==
    /\ apc = "raise"
    /\ apc' = "done"
    /\ astatus' = "raised"
    /\ aerr' = "ValueError"
    /\ UNCHANGED <<invocations, backendCalls, lastReply, raw, raw2, json_text,
                   cleans, repairs, parsed, report>>
    /\ UNCHANGED <<wvars, sent>>
    /\ UNCHANGED besidesAnalyze

\* optimizer.py:117-123: json.loads(json_text); when it raises, the trailing
\* commas are removed and json.loads runs once more, its exception leaving
\* analyze_artifacts
ParseJson ==
    /\ apc = "parse"
    /\ \E strict \in {json_loads(json_text)} :
        \/ /\ strict.ok
           /\ parsed' = strict.val
           /\ apc' = "defaults"
           /\ UNCHANGED <<repairs, astatus, aerr>>
        \/ /\ ~strict.ok
           /\ repairs' = repairs + 1
           /\ \E fixed \in {fix_trailing_commas(json_text)} :
              \E again \in {json_loads(fixed)} :
                \/ /\ again.ok
                   /\ parsed' = again.val
                   /\ apc' = "defaults"
                   /\ UNCHANGED <<astatus, aerr>>
                \/ /\ ~again.ok
                   /\ apc' = "done"
                   /\ astatus' = "raised"
                   /\ aerr' = "JSONDecodeError"
                   /\ UNCHANGED parsed
    /\ UNCHANGED <<invocations, backendCalls, lastReply, raw, raw2, json_text,
                   cleans, report>>
    /\ UNCHANGED <<wvars, sent>>
    /\ UNCHANGED besidesAnalyze

\* A variant that assigns the default whether or not the key is there
setdefault_overwrite(m, key, default) == DictSet(m, key, default)

\* dict.setdefault(key, default)
setdefault(m, key, default) ==
    IF key \in DOMAIN m THEN m ELSE DictSet(m, key, default)

RECURSIVE SetDefaults(_, _)
\* optimizer.py:126-129: the setdefault calls for the keys from position k on
SetDefaults(m, k) ==
    IF k > Len(KnownKeys) THEN m
    ELSE SetDefaults(setdefault(m, KnownKeys[k], EmptyList), k + 1)

\* optimizer.py:125-131: a dict gets its defaults and is returned; a list
\* has no setdefault
EnsureKeys ==
    /\ apc = "defaults"
    /\ apc' = "done"
    /\ \/ /\ parsed.t = "obj"
          /\ report' = SetDefaults(parsed.v, 1)
          /\ astatus' = "returned"
          /\ UNCHANGED aerr
       \/ /\ parsed.t # "obj"
          /\ astatus' = "raised"
          /\ aerr' = "AttributeError"
          /\ UNCHANGED report
    /\ UNCHANGED <<invocations, backendCalls, lastReply, raw, raw2, json_text,
                   cleans, repairs, parsed>>
    /\ UNCHANGED <<wvars, sent>>
    /\ UNCHANGED besidesAnalyze

AnalyzeAtRest ==
    /\ apc = "idle"
    /\ invocations = 0
    /\ backendCalls = 0
    /\ lastReply = NoReply
    /\ raw = <<>>
    /\ raw2 = <<>>
    /\ json_text = <<>>
    /\ cleans = 0
    /\ repairs = 0
    /\ parsed = NoValue
    /\ astatus = "running"
    /\ aerr = "none"
    /\ report = <<>>

\* A call analyze_artifacts(client, artifacts)
AnalyzeCall ==
    /\ apc = "start"
    /\ invocations = 0
    /\ backendCalls = 0
    /\ lastReply = NoReply
    /\ raw = <<>>
    /\ raw2 = <<>>
    /\ json_text = <<>>
    /\ cleans = 0
    /\ repairs = 0
    /\ parsed = NoValue
    /\ astatus = "running"
    /\ aerr = "none"
    /\ report = <<>>

-----------------------------------------------------------------------------
(* chat() and Agent.handle.  The requests come from one browser session;   *)
(* the Flask server runs each in a thread of its own, and threads switch   *)
(* at the file operations and at the backend call.                         *)

Requests == 1..NumRequests

\* An entry of a message list or of agent.memory: req is the request whose
\* text or reply it holds, 0 for the system prompt
Entry(role, req) == [role |-> role, req |-> req]

\* What the backend can answer in chat
ChatReplies == {"prose", "plan", "empty_plan", "bad_plan"}

\* msg.content of an answer
ChatReplyText(kind) ==
    IF kind = "plan"
    THEN Fence \o JsonTag \o <<"\n", "{", Quote>> \o plan
         \o <<Quote, ":", " ", "[", "{", "}", "]", "}", "\n">> \o Fence
    ELSE IF kind = "empty_plan"
    THEN <<"{", Quote>> \o plan \o <<Quote, ":", " ", "[", "]", "}">>
    ELSE IF kind = "bad_plan"
    THEN <<"{", Quote>> \o plan \o <<Quote, ":", " ", "[", "1", "]", "}">>
    ELSE <<"o", "k">>

\* app.py:388-415: the assistant entry is the table when the reply holds a
\* JSON object whose plan is a non-empty list of objects, and the reply
\* itself otherwise: json.loads raising, a plan item without .get, or no
\* rows
AssistantContent(text) ==
    LET data == At(json_loads, extract_json(text)) IN
    IF /\ data.ok
       /\ data.val.t = "obj"
       /\ plan \in DOMAIN data.val.v
       /\ data.val.v[plan].t = "arr"
       /\ data.val.v[plan].v # <<>>
       /\ \A i \in 1..Len(data.val.v[plan].v) : data.val.v[plan].v[i].t = "obj"
    THEN "table_html"
    ELSE "reply"

HistoryEntry(role, req, content) ==
    [role |-> role, req |-> req, content |-> content]

\* A variant that puts the system prompt after the session memory
HandleMessagesSystemLast(mem) == mem \o <<Entry("system", 0)>>

\* app.py:60
HandleMessages(mem) == <<Entry("system", 0)>> \o mem

\* app.py:310-317 and 321-381: the session is loaded, chat_history.json is
\* read and the entry of the user is appended to the list that was read
ReadHistory(r) ==
    /\ cpc[r] = "start"
    /\ cpc' = [cpc EXCEPT ![r] = "handle"]
    /\ session_memory' = [session_memory EXCEPT ![r] = session_store]
    /\ chat_history' =
           [chat_history EXCEPT ![r] =
               Append(history_file, HistoryEntry("You", r, "user_input"))]
    /\ UNCHANGED <<reply, history_file, session_store, memory, memory_file, sent>>
    /\ UNCHANGED besidesChat

\* app.py:386, 58-61 and 44-54: agent.handle appends the user entry to the
\* session memory and sends the system prompt followed by the session memory
HandleSend(r) ==
    /\ cpc[r] = "handle"
    /\ cpc' = [cpc EXCEPT ![r] = "waiting"]
    /\ session_memory' =
           [session_memory EXCEPT ![r] = Append(@, Entry("user", r))]
    /\ sent' = HandleMessages(session_memory'[r])
    /\ UNCHANGED <<chat_history, reply, history_file, session_store, memory,
                   memory_file>>
    /\ UNCHANGED besidesChat

\* A variant that appends only the two entries of this call
extend_new_entries(list, items) ==
    list \o SubSeq(items, Len(items) - 1, Len(items))

\* app.py:64: list.extend
extend(list, items) == list \o items

\* app.py:61-66: the reply arrives; it is appended to the session memory,
\* the session memory is appended to agent.memory and agent.memory is saved
HandleReceive(r) ==
    /\ cpc[r] = "waiting"
    /\ cpc' = [cpc EXCEPT ![r] = "respond"]
    /\ \E kind \in ChatReplies : reply' = [reply EXCEPT ![r] = kind]
    /\ session_memory' =
           [session_memory EXCEPT ![r] = Append(@, Entry("assistant", r))]
    /\ memory' = extend(memory, session_memory'[r])
    /\ memory_file' = memory'
    /\ UNCHANGED <<chat_history, history_file, session_store, sent>>
    /\ UNCHANGED besidesChat

\* app.py:54: the backend call raises; chat() has no handler for it, the
\* request ends with an error and the session is stored as it is
HandleFail(r) ==
    /\ cpc[r] = "waiting"
    /\ cpc' = [cpc EXCEPT ![r] = "failed"]
    /\ session_store' = session_memory[r]
    /\ UNCHANGED <<chat_history, session_memory, reply, history_file, memory,
                   memory_file, sent>>
    /\ UNCHANGED besidesChat

\* app.py:388-420: the assistant entry is appended to the list read at the
\* start of the request, the list is written to chat_history.json, and the
\* session is stored at the end of the request
WriteHistory(r) ==
    /\ cpc[r] = "respond"
    /\ cpc' = [cpc EXCEPT ![r] = "done"]
    /\ chat_history' =
           [chat_history EXCEPT ![r] =
               Append(@, HistoryEntry("assistant", r,
                                      AssistantContent(ChatReplyText(reply[r]))))]
    /\ history_file' = chat_history'[r]
    /\ session_store' = session_memory[r]
    /\ UNCHANGED <<session_memory, reply, memory, memory_file, sent>>
    /\ UNCHANGED besidesChat

\* No request has arrived
ChatAtRest ==
    /\ cpc = [r \in Requests |-> "absent"]
    /\ chat_history = [r \in Requests |-> <<>>]
    /\ session_memory = [r \in Requests |-> <<>>]
    /\ reply = [r \in Requests |-> "none"]
    /\ history_file = <<>>
    /\ session_store = <<>>
    /\ memory = <<>>
    /\ memory_file = <<>>

\* The server after start-up: no chat_history.json, an empty session, an
\* agent without a memory file; the requests have arrived
ChatStart ==
    /\ cpc = [r \in Requests |-> "start"]
    /\ chat_history = [r \in Requests |-> <<>>]
    /\ session_memory = [r \in Requests |-> <<>>]
    /\ reply = [r \in Requests |-> "none"]
    /\ history_file = <<>>
    /\ session_store = <<>>
    /\ memory = <<>>
    /\ memory_file = <<>>

-----------------------------------------------------------------------------
(* The specifications *)

\* A direct call safe_openai_call(func, retries=r, initial_delay=d) with a
\* scripted func
RetryCall ==
    /\ retries \in 0..MaxRetries
    /\ initial_delay \in 1..MaxInitialDelay
    /\ script \in [1..ScriptLen -> OutcomeKinds]
    /\ wpc = "start"
    /\ attempt = 0
    /\ delay = 0
    /\ calls = 0
    /\ log = <<>>
    /\ exc = NoError
    /\ wstatus = "running"
    /\ wvalue = NoneValue
    /\ werr = NoError

InitRetry ==
    RetryCall /\ ExtractAtRest /\ sent = <<>> /\ AnalyzeAtRest /\ ChatAtRest

NextRetry == WrapperStep({0})

SpecRetry == InitRetry /\ [][NextRetry]_vars

InitExtract ==
    /\ WrapperAtRest
    /\ sent = <<>>
    /\ AnalyzeAtRest
    /\ ChatAtRest
    /\ epc = "start"
    /\ etext \in ExtractInputs
    /\ eresult = <<>>

NextExtract == ExtractJson

SpecExtract == InitExtract /\ [][NextExtract]_vars

InitAnalyze ==
    /\ WrapperAtRest
    /\ ExtractAtRest
    /\ sent = <<>>
    /\ AnalyzeCall
    /\ ChatAtRest

NextAnalyze ==
    \/ FirstCall
    \/ FirstResult
    \/ FollowUpCall
    \/ FollowUpResult
    \/ RaiseValueError
    \/ ParseJson
    \/ EnsureKeys
    \/ WrapperStep(Replies)

SpecAnalyze == InitAnalyze /\ [][NextAnalyze]_vars

InitChat ==
    /\ WrapperAtRest
    /\ ExtractAtRest
    /\ sent = <<>>
    /\ AnalyzeAtRest
    /\ ChatStart

NextChat ==
    \E r \in Requests :
        \/ ReadHistory(r)
        \/ HandleSend(r)
        \/ HandleReceive(r)
        \/ HandleFail(r)
        \/ WriteHistory(r)

SpecChat == InitChat /\ [][NextChat]_vars

\* Either program is run
InitPrompt == InitAnalyze \/ InitChat

NextPrompt == NextAnalyze \/ NextChat

SpecPrompt == InitPrompt /\ [][NextPrompt]_vars

\* The requests of one browser session handled one after another: each
\* request passes session["session_memory"] as its predecessor left it to
\* agent.handle (app.py:386)
Calls == 1..MaxCalls

\* No other request is being handled
Alone(r) == \A q \in Calls \ {r} : cpc[q] \in {"start", "done", "failed"}

InitHandle ==
    /\ WrapperAtRest
    /\ ExtractAtRest
    /\ sent = <<>>
    /\ AnalyzeAtRest
    /\ cpc = [r \in Calls |-> "start"]
    /\ chat_history = [r \in Calls |-> <<>>]
    /\ session_memory = [r \in Calls |-> <<>>]
    /\ reply = [r \in Calls |-> "none"]
    /\ history_file = <<>>
    /\ session_store = <<>>
    /\ memory = <<>>
    /\ memory_file = <<>>

\* A request arrives when the one before it has ended
ReadHistoryAlone(r) == Alone(r) /\ ReadHistory(r)

NextHandle ==
    \E r \in Calls :
        \/ ReadHistoryAlone(r)
        \/ HandleSend(r)
        \/ HandleReceive(r)
        \/ HandleFail(r)
        \/ WriteHistory(r)

SpecHandle == InitHandle /\ [][NextHandle]_vars

-----------------------------------------------------------------------------
(* Claims about safe_openai_call, checked under SpecRetry *)

Retryable(kind) == kind \in {RateLimitError, APIConnectionError}

RECURSIVE LeadingRetryable(_)
\* The number of retryable failures func raises before anything else
LeadingRetryable(sc) ==
    IF sc = <<>> \/ ~Retryable(Head(sc)) THEN 0
    ELSE 1 + LeadingRetryable(Tail(sc))

\* func raises a retryable error exactly n times and then returns a value
FailsThenSucceeds(n) ==
    /\ n = LeadingRetryable(script)
    /\ n + 1 <= Len(script)
    /\ script[n + 1] = Ok

RECURSIVE Pow2(_)
Pow2(k) == IF k = 0 THEN 1 ELSE 2 * Pow2(k - 1)

\* C1: with retries >= 1 and a func that raises a retryable error exactly n
\* times and then returns, the wrapper returns func's value after exactly n+1
\* calls when retries >= n+1, and otherwise raises, after exactly retries
\* calls, the error of the last call.
C1_RetryCount ==
    \A n \in 0..MaxRetries :
        (wpc = "done" /\ retries >= 1 /\ FailsThenSucceeds(n)) =>
            IF retries >= n + 1
            THEN /\ wstatus = "returned"
                 /\ wvalue = [call |-> n + 1, content |-> 0]
                 /\ calls = n + 1
            ELSE /\ wstatus = "raised"
                 /\ calls = retries
                 /\ werr = [kind |-> script[retries], call |-> retries]

\* The wrapper gave up: func would have failed at least retries (>= 2) times
C1_Witness ==
    /\ wpc = "done"
    /\ retries >= 2
    /\ \E n \in 0..MaxRetries : FailsThenSucceeds(n) /\ retries <= n
    /\ wstatus = "raised"
    /\ calls = retries

\* C2: when the first call of func raises an error that is neither
\* RateLimitError nor APIConnectionError, the wrapper raises that error after
\* exactly one call of func, without sleeping, whatever retries >= 1 is.
C2_NonRetryablePropagates ==
    (wpc = "done" /\ retries >= 1 /\ script[1] = OtherError) =>
        /\ wstatus = "raised"
        /\ werr = [kind |-> OtherError, call |-> 1]
        /\ calls = 1
        /\ log = <<[ev |-> "call", d |-> 0]>>

C2_Witness ==
    /\ wpc = "done"
    /\ retries >= 2
    /\ script[1] = OtherError
    /\ wstatus = "raised"

\* C3: with retries = 0 the wrapper ends in a configuration error; it never
\* completes normally having made zero calls of func.
C3_ZeroAttemptsRejected ==
    /\ (wpc = "done" /\ retries = 0) =>
           (wstatus = "raised" /\ werr.kind = "ConfigError")
    /\ ~(wpc = "done" /\ wstatus = "returned" /\ calls = 0)

\* C4: an invocation that calls func c >= 1 times sleeps exactly c-1 times,
\* each sleep between two consecutive calls, the k-th sleep lasting
\* initial_delay * 2^(k-1); nothing is slept after the final attempt.
C4_BackoffSchedule ==
    /\ \A i \in 1..Len(log) :
           IF i % 2 = 1
           THEN log[i].ev = "call"
           ELSE /\ log[i].ev = "sleep"
                /\ log[i].d = initial_delay * Pow2((i \div 2) - 1)
    /\ (wpc = "done" /\ calls >= 1) => Len(log) = 2 * calls - 1

\* Three calls, two sleeps, the second twice as long as the first
C4_Witness ==
    /\ wpc = "done"
    /\ calls = 3
    /\ Len(log) = 5
    /\ log[4].d = 2 * log[2].d

-----------------------------------------------------------------------------
(* The claim about extract_json, checked under SpecExtract *)

\* The leftmost position at which p occurs in s, 0 when it does not
FindSub(s, p) ==
    LET at(i) == SubSeq(s, i, i + Len(p) - 1) = p
        n == Len(s) - Len(p) + 1
    IN  IF \E i \in 1..n : at(i)
        THEN CHOOSE i \in 1..n : at(i) /\ \A j \in 1..(i - 1) : ~at(j)
        ELSE 0

\* Rule 1: the interior of a fenced block is what stands between the opening
\* fence and the closing fence (the end of the text when the block is not
\* closed), without a leading json tag
C7_FenceInterior(t) ==
    LET opened == lstrip_chars(t, {Backquote})
        k == FindSub(opened, Fence)
        inside == IF k > 0 THEN SubSeq(opened, 1, k - 1)
                  ELSE rstrip_chars(opened, {Backquote})
        inner == lstrip(inside)
        untagged == IF startswith(lower(inner), JsonTag)
                    THEN SubSeq(inner, 5, Len(inner))
                    ELSE inner
    IN  strip(untagged)

\* The five rules, the first applicable one deciding
C7_RuleList(text) ==
    LET t == strip(text)
        a == FirstIndex(t, "{")
        b == LastIndex(t, "}")
        c == FirstIndex(t, "[")
        d == LastIndex(t, "]")
    IN  IF startswith(t, Fence) THEN C7_FenceInterior(t)
        ELSE IF startswith(t, Tick) /\ endswith(t, Tick)
        THEN strip(strip_chars(t, {Backquote}))
        ELSE IF a > 0 /\ b > a THEN SubSeq(t, a, b)
        ELSE IF c > 0 /\ d > c THEN SubSeq(t, c, d)
        ELSE t

\* C7: for every input text, extract_json returns the result of the first
\* applicable rule: (1) a text starting with a fence gives the interior with
\* the fence delimiters and the json tag removed, (2) a text wrapped in
\* backquotes gives the text without them, (3) the span from the leftmost {
\* to the rightmost }, (4) the span from the leftmost [ to the rightmost ],
\* (5) the trimmed text.
C7_FiveRules == (epc = "done") => eresult = C7_RuleList(etext)

-----------------------------------------------------------------------------
(* Claims about analyze_artifacts, checked under SpecAnalyze *)

\* Backend calls made so far, those of the invocation in progress included
TotalBackendCalls == backendCalls + calls

\* C5: analyze_artifacts calls safe_openai_call at most twice, hence the
\* backend at most 2 * retries times; the follow-up is sent at most once, only
\* after the first output failed extraction, and quotes that output; the
\* second output is extracted once, and when that fails too the function
\* raises instead of asking again.
C5_OneFollowUp ==
    /\ invocations <= 2
    /\ TotalBackendCalls <= 2 * DefaultRetries
    /\ cleans <= invocations
    /\ invocations = 2 =>
           /\ _clean_json_from_text(raw) = None
           /\ sent = FollowMessages(raw)
    /\ apc = "follow" => (invocations = 1 /\ cleans = 1)
    /\ (apc = "done" /\ cleans = 2 /\ _clean_json_from_text(raw2) = None) =>
           (astatus = "raised" /\ aerr = "ValueError")

\* Both invocations used up all their attempts, and the second output held
\* no JSON either
C5_Witness ==
    /\ apc = "done"
    /\ invocations = 2
    /\ backendCalls = 2 * DefaultRetries
    /\ cleans = 2
    /\ aerr = "ValueError"

\* C6: a returned report has every known key; a known key the backend's JSON
\* omitted maps to the empty list, a known key it supplied keeps its value,
\* and every other key of the backend's JSON is there with its value.
C6_DefaultsFilled ==
    astatus = "returned" =>
        /\ parsed.t = "obj"
        /\ (lastReply.kind = "doc" /\ lastReply.comma = 0) =>
               parsed = DocObject(lastReply.doc)
        /\ \A k \in 1..Len(KnownKeys) :
               /\ KnownKeys[k] \in DOMAIN report
               /\ report[KnownKeys[k]] =
                      IF KnownKeys[k] \in DOMAIN parsed.v
                      THEN parsed.v[KnownKeys[k]]
                      ELSE EmptyList
        /\ \A key \in DOMAIN parsed.v :
               key \in DOMAIN report /\ report[key] = parsed.v[key]

\* The backend supplied one known key and one unknown key
C6_Witness ==
    /\ astatus = "returned"
    /\ lastReply.kind = "doc"
    /\ lastReply.comma = 0
    /\ DOMAIN lastReply.doc = {1, Len(DocKeys)}
    /\ lastReply.doc[1] = "text"

\* C8: the repair pass runs only after strict parsing failed and at most
\* once; a candidate slice that is valid JSON except for one trailing comma
\* before a closing brace or bracket parses after the repair to the same
\* structure as the text without that comma; a failure after the repair is
\* raised without another repair.
C8_RepairRestores ==
    /\ repairs <= 1
    /\ repairs = 1 => ~json_loads(json_text).ok
    /\ (/\ apc \in {"defaults", "done"}
        /\ lastReply.kind = "doc"
        /\ lastReply.comma # 0) =>
           /\ repairs = 1
           /\ aerr # "JSONDecodeError"
           /\ parsed = json_loads(ObjectText(lastReply.doc, 0)).val

-----------------------------------------------------------------------------
(* Claims about the prompts and about chat() *)

\* C9: every message list sent to the backend, by Agent.handle whatever
\* handle calls came before on the session memory and by analyze_artifacts
\* for the first and for the follow-up prompt, has exactly one system entry,
\* and it is the first.
C9_OneLeadingSystem ==
    sent # <<>> =>
        /\ sent[1].role = "system"
        /\ \A i \in 2..Len(sent) : sent[i].role # "system"

\* Agent.handle sends the session memory of an earlier request and the new
\* user entry
C9_Witness ==
    /\ Len(sent) = 4
    /\ sent[2].role = "user"
    /\ sent[3].role = "assistant"
    /\ sent[4].role = "user"
    /\ sent[4].req # sent[2].req

\* The entries of request r are in chat_history.json, the user's first
InHistory(r) ==
    \E i, j \in 1..Len(history_file) :
        /\ i < j
        /\ history_file[i].role = "You" /\ history_file[i].req = r
        /\ history_file[j].role = "assistant" /\ history_file[j].req = r

\* C10: when all the POST requests have run to completion, whatever their
\* interleaving, chat_history.json holds the user entry and the assistant
\* entry of every one of them, the user entry first.
C10_NoLostUpdate ==
    (\A r \in Requests : cpc[r] = "done") => \A r \in Requests : InHistory(r)

-----------------------------------------------------------------------------
(* Claim about Agent.handle, checked under SpecHandle *)

\* The calls of Agent.handle that have returned
Returned == {r \in Calls : cpc[r] \in {"respond", "done"}}

\* user and assistant entries alternate, a user entry first
Alternating(list) ==
    \A i \in 1..Len(list) :
        list[i].role = IF i % 2 = 1 THEN "user" ELSE "assistant"

\* C11: in a sequence of successful calls of Agent.handle that share one
\* session memory, starting with the session memory and agent.memory empty,
\* the k-th call appends one user entry and then one assistant entry to the
\* session memory, which then has 2k alternating entries, and appends the
\* whole session memory to agent.memory, which then has k*(k+1) entries and
\* equals the saved memory file.
C11_MemoryGrowth ==
    \A r \in Calls :
        (cpc[r] = "respond" /\ \A q \in Calls : cpc[q] # "failed") =>
            LET k == Cardinality(Returned)
                list == session_memory[r]
            IN  /\ list = session_store
                           \o <<Entry("user", r), Entry("assistant", r)>>
                /\ Len(list) = 2 * k
                /\ Alternating(list)
                /\ Len(memory) = k * (k + 1)
                /\ SubSeq(memory, Len(memory) - 2 * k + 1, Len(memory)) = list
                /\ memory_file = memory

\* The third call in a row has returned
C11_Witness ==
    /\ \A q \in Calls : cpc[q] # "failed"
    /\ Cardinality(Returned) = 3
    /\ \E r \in Calls : cpc[r] = "respond"
    /\ Len(memory) = 12

=============================================================================
